---- MODULE Spec2Model ----
(***************************************************************************)
(* Model of netd's server/Controllers.cpp: the static child-chain tables,  *)
(* createChildChains / createChildChainsFast, the Controllers constructor, *)
(* Controllers::initIptablesRules and Controllers::init, running against   *)
(* an abstract iptables rule state for the IPv4 and the IPv6 tool.         *)
(***************************************************************************)
EXTENDS Integers, Sequences, FiniteSets, TLC

VARIABLES
    pc,        \* position of the daemon in Controllers() / init()
    entry,     \* index of the createChildChains* call being executed (lines 150-157)
    child,     \* index of *childChain inside createChildChains (0 outside)
    step,      \* 1..5: the next of the five exec calls of lines 102-106 (0 outside)
    ipt,       \* ipt[f]: rule state of family f: existing chains and their rules
    last,      \* the last tool invocation issued and the families it failed on
    nExec,     \* execIptables / execIptablesSilently calls issued in this run
    nRestore,  \* execIptablesRestore calls issued in this run
    hookLog,   \* hook-installation operations invoked in this run, in order
    bwCalls,   \* enableBandwidthControl(false) calls in this run
    routeCalls,\* RouteController::Init calls in this run
    routeRet,  \* the value RouteController::Init returned (0 before the call)
    errLogged, \* ALOGE of line 195 was issued in this run
    sigHandler,\* IptablesRestoreController::installSignalHandler has run
    failures,  \* <<op, entry, family>>: the invocations that returned non-zero in this run
    broken,    \* <<op, family>>: the commands that fail for a reason outside the rule state
    run,       \* 1 for the first start of the daemon, +1 per restart
    start,     \* the rule state the first run started from
    runStart   \* the rule state the current run started from

vars == <<pc, entry, child, step, ipt, last, nExec, nRestore, hookLog, bwCalls,
          routeCalls, routeRet, errLogged, sigHandler, failures, broken, run, start,
          runStart>>

(***************************************************************************)
(* Bounds of the model.                                                    *)
(***************************************************************************)
MaxRuns == 2        \* starts of the daemon on the same kernel rule state
MaxPreJumps == 2    \* pre-existing jump rules to one child in a parent chain

(***************************************************************************)
(* IptablesTarget and the chain names.                                     *)
(***************************************************************************)
Families == {"v4", "v6"}
V4 == {"v4"}
V4V6 == {"v4", "v6"}

FILTER_INPUT ==
    << "BandwidthController::LOCAL_INPUT",
       "FirewallController::LOCAL_INPUT" >>

FILTER_FORWARD ==
    << "OEM_IPTABLES_FILTER_FORWARD",
       "FirewallController::LOCAL_FORWARD",
       "BandwidthController::LOCAL_FORWARD",
       "NatController::LOCAL_FORWARD" >>

FILTER_OUTPUT ==
    << "OEM_IPTABLES_FILTER_OUTPUT",
       "FirewallController::LOCAL_OUTPUT",
       "StrictController::LOCAL_OUTPUT",
       "BandwidthController::LOCAL_OUTPUT" >>

RAW_PREROUTING ==
    << "BandwidthController::LOCAL_RAW_PREROUTING",
       "IdletimerController::LOCAL_RAW_PREROUTING",
       "NatController::LOCAL_RAW_PREROUTING" >>

MANGLE_POSTROUTING ==
    << "OEM_IPTABLES_MANGLE_POSTROUTING",
       "BandwidthController::LOCAL_MANGLE_POSTROUTING",
       "IdletimerController::LOCAL_MANGLE_POSTROUTING" >>

MANGLE_FORWARD == << "NatController::LOCAL_MANGLE_FORWARD" >>

NAT_PREROUTING == << "OEM_IPTABLES_NAT_PREROUTING" >>

NAT_POSTROUTING == << "NatController::LOCAL_NAT_POSTROUTING" >>

\* The eight calls of initIptablesRules, in program order.  fast = TRUE is
\* createChildChainsFast, fast = FALSE is createChildChains.
Topology ==
    << [target |-> V4V6, table |-> "filter", parent |-> "filter/INPUT",
        children |-> FILTER_INPUT, fast |-> TRUE],
       [target |-> V4V6, table |-> "filter", parent |-> "filter/FORWARD",
        children |-> FILTER_FORWARD, fast |-> TRUE],
       [target |-> V4V6, table |-> "filter", parent |-> "filter/OUTPUT",
        children |-> FILTER_OUTPUT, fast |-> FALSE],
       [target |-> V4V6, table |-> "raw", parent |-> "raw/PREROUTING",
        children |-> RAW_PREROUTING, fast |-> TRUE],
       [target |-> V4V6, table |-> "mangle", parent |-> "mangle/POSTROUTING",
        children |-> MANGLE_POSTROUTING, fast |-> FALSE],
       [target |-> V4V6, table |-> "mangle", parent |-> "mangle/FORWARD",
        children |-> MANGLE_FORWARD, fast |-> TRUE],
       [target |-> V4, table |-> "nat", parent |-> "nat/PREROUTING",
        children |-> NAT_PREROUTING, fast |-> TRUE],
       [target |-> V4, table |-> "nat", parent |-> "nat/POSTROUTING",
        children |-> NAT_POSTROUTING, fast |-> TRUE] >>

Entries == 1..Len(Topology)

Range(s) == {s[i] : i \in 1..Len(s)}

ChildrenOf(e) == Range(Topology[e].children)

Parents == {Topology[e].parent : e \in Entries}

Children == UNION {ChildrenOf(e) : e \in Entries}

Chains == Parents \cup Children

(***************************************************************************)
(* The rule state of one family and the effect of the iptables commands    *)
(* that the installers issue.  A table state t is a record: t.exists is    *)
(* the set of existing chains and t.rules[c] the rule list of chain c.  A  *)
(* rule is a string: the name of a child chain stands for "-j <child>".    *)
(* Every command yields the new state and the exit status of the tool.     *)
(***************************************************************************)
Result(t, rc) == [t |-> t, rc |-> rc]

Count(s, x) == Cardinality({i \in 1..Len(s) : s[i] = x})

Referenced(t, c) == \E p \in t.exists : Count(t.rules[p], c) > 0

RemoveFirst(s, x) ==
    LET i == CHOOSE k \in 1..Len(s) : s[k] = x /\ \A j \in 1..(k - 1) : s[j] # x
    IN  SubSeq(s, 1, i - 1) \o SubSeq(s, i + 1, Len(s))

\* iptables -t <table> -D <parent> -j <child>
IptDeleteJump(t, parent, c) ==
    IF parent \in t.exists /\ Count(t.rules[parent], c) > 0
    THEN Result([t EXCEPT !.rules[parent] = RemoveFirst(@, c)], 0)
    ELSE Result(t, 1)

\* iptables -t <table> -F <child>
IptFlush(t, c) ==
    IF c \in t.exists
    THEN Result([t EXCEPT !.rules[c] = << >>], 0)
    ELSE Result(t, 1)

\* iptables -t <table> -X <child>: refused for a chain that holds rules or
\* that a rule still jumps to.
IptDeleteChain(t, c) ==
    IF c \in t.exists /\ t.rules[c] = << >> /\ ~Referenced(t, c)
    THEN Result([t EXCEPT !.exists = @ \ {c}], 0)
    ELSE Result(t, 1)

\* iptables -t <table> -N <child>
IptNewChain(t, c) ==
    IF c \notin t.exists
    THEN Result([t EXCEPT !.exists = @ \cup {c}, !.rules[c] = << >>], 0)
    ELSE Result(t, 1)

\* iptables -t <table> -A <parent> -j <child>
IptAppendJump(t, parent, c) ==
    IF parent \in t.exists /\ c \in t.exists
    THEN Result([t EXCEPT !.rules[parent] = Append(@, c)], 0)
    ELSE Result(t, 1)

\* Built-in chains: ":chain -" in a restore script leaves their rules alone.
Builtin == Parents

\* One line of an iptables-restore script applied to the working copy w.t;
\* w.ok turns FALSE at the first line the tool rejects.
RestoreLine(w, line) ==
    IF ~w.ok THEN w
    ELSE IF line.kind = "chain"
    THEN IF line.chain \in Builtin THEN w
         ELSE [w EXCEPT !.t.exists = @ \cup {line.chain},
                        !.t.rules[line.chain] = << >>]
    ELSE IF line.kind = "flush"
    THEN LET r == IptFlush(w.t, line.chain)
         IN  [t |-> r.t, ok |-> r.rc = 0]
    ELSE IF line.kind = "append"
    THEN LET r == IptAppendJump(w.t, line.chain, line.jump)
         IN  [t |-> r.t, ok |-> r.rc = 0]
    ELSE w

\* The lines of the script applied in order from line i on.  (The working
\* copy after line i is bound as a value before the fold goes on, so that
\* its evaluation stays linear in the length of the script.)
RECURSIVE RestoreFold(_, _, _)
RestoreFold(w, script, i) ==
    IF i > Len(script) THEN w
    ELSE CHOOSE r \in {RestoreFold(x, script, i + 1) :
                          x \in {RestoreLine(w, script[i])}} : TRUE

\* iptables-restore: the whole script is applied to a copy of the table and
\* committed as one unit; a rejected script leaves the table as it was.
IptRestore(t, script) ==
    LET w == RestoreFold([t |-> t, ok |-> TRUE], script, 1)
        committed == w.ok /\ Len(script) > 0 /\ script[Len(script)].kind = "commit"
    IN  IF committed THEN Result(w.t, 0) ELSE Result(t, 1)

\* execIptables*(target, ...): one tool process per family of the target.
\* res[f] is what the command does to the state of family f; ext is the
\* set of families whose process fails for a reason outside the rule state
\* (it changes nothing and exits non-zero).
Invoke(state, target, res, ext) ==
    LET out == [f \in Families |->
                   IF f \in target /\ f \notin ext THEN res[f]
                   ELSE Result(state[f], IF f \in target THEN 1 ELSE 0)]
    IN  [ipt |-> [f \in Families |-> out[f].t],
         failed |-> {f \in target : out[f].rc # 0}]

(***************************************************************************)
(* createChildChains and createChildChainsFast.                            *)
(***************************************************************************)
NoCall == [op |-> "none", entry |-> 0, child |-> 0, failed |-> {}, silent |-> FALSE]

Call(op, e, c, failed, silent) ==
    [op |-> op, entry |-> e, child |-> c, failed |-> failed, silent |-> silent]

\* The families of target on which command op fails for an external reason.
Ext(op, target) == {f \in target : <<op, f>> \in broken}

\* Variant of lines 150-157 in which the call after entry e is left out.
AfterEntrySkips(e) ==
    IF e + 1 < Len(Topology)
    THEN /\ pc' = "topology"
         /\ entry' = e + 2
         /\ child' = IF Topology[e + 2].fast THEN 0 ELSE 1
         /\ step' = IF Topology[e + 2].fast THEN 0 ELSE 1
    ELSE /\ pc' = "setupOemIptablesHook"
         /\ entry' = 0
         /\ child' = 0
         /\ step' = 0

\* Position after the createChildChains* call of entry e has returned:
\* the next call of lines 150-157, or the first hook of line 161.
AfterEntry(e) ==
    IF e < Len(Topology)
    THEN /\ pc' = "topology"
         /\ entry' = e + 1
         /\ child' = IF Topology[e + 1].fast THEN 0 ELSE 1
         /\ step' = IF Topology[e + 1].fast THEN 0 ELSE 1
    ELSE /\ pc' = "setupOemIptablesHook"
         /\ entry' = 0
         /\ child' = 0
         /\ step' = 0

\* Variant of line 107 whose loop ends one child early.
AfterAppendStopsEarly(e, c) ==
    IF c < Len(Topology[e].children) - 1
    THEN /\ pc' = "topology"
         /\ entry' = e
         /\ child' = c + 1
         /\ step' = 1
    ELSE AfterEntry(e)

\* while (*(++childChain) != NULL) of line 107
AfterAppend(e, c) ==
    IF c < Len(Topology[e].children)
    THEN /\ pc' = "topology"
         /\ entry' = e
         /\ child' = c + 1
         /\ step' = 1
    ELSE AfterEntry(e)

InSafe(s) ==
    /\ pc = "topology"
    /\ entry \in Entries
    /\ ~Topology[entry].fast
    /\ step = s

\* One exec call of the loop body: it is issued whatever the earlier calls
\* returned, and its own exit status is dropped.
SafeCall(op, silent, r) ==
    /\ ipt' = r.ipt
    /\ last' = Call(op, entry, child, r.failed, silent)
    /\ nExec' = nExec + 1
    /\ failures' = failures \cup {<<op, entry, f>> : f \in r.failed}
    /\ UNCHANGED <<nRestore, hookLog, bwCalls, routeCalls, routeRet, errLogged,
                   sigHandler, broken, run, start, runStart>>

SameChild == /\ pc' = pc /\ entry' = entry /\ child' = child /\ step' = step + 1

\* Variant of line 102 that issues no -D at all.
ExecDeleteJumpSkipped ==
    /\ InSafe(1)
    /\ SameChild
    /\ UNCHANGED <<ipt, last, nExec, nRestore, hookLog, bwCalls, routeCalls, routeRet,
                   errLogged, sigHandler, failures, broken, run, start, runStart>>

\* Variant of line 102 that empties the parent chain (-F parentChain) instead
\* of deleting the one jump rule.
ExecDeleteJumpFlushesParent ==
    /\ InSafe(1)
    /\ SafeCall("-D", TRUE,
          Invoke(ipt, Topology[entry].target,
                 [f \in Families |-> IptFlush(ipt[f], Topology[entry].parent)],
                 Ext("-D", Topology[entry].target)))
    /\ SameChild

\* line 102: execIptablesSilently(target, "-t", table, "-D", parentChain, "-j", *childChain)
ExecDeleteJump ==
    /\ InSafe(1)
    /\ SafeCall("-D", TRUE,
          Invoke(ipt, Topology[entry].target,
                 [f \in Families |-> IptDeleteJump(ipt[f], Topology[entry].parent,
                                          Topology[entry].children[child])],
                 Ext("-D", Topology[entry].target)))
    /\ SameChild

\* Variant of line 103 after which a failed -F abandons the child: the loop
\* goes on to the next child without -X, -N and -A.
ExecFlushStopsOnFailure ==
    /\ InSafe(2)
    /\ LET r == Invoke(ipt, Topology[entry].target,
                       [f \in Families |-> IptFlush(ipt[f], Topology[entry].children[child])],
                       Ext("-F", Topology[entry].target))
       IN  /\ SafeCall("-F", TRUE, r)
           /\ IF r.failed = {} THEN SameChild ELSE AfterAppend(entry, child)

\* line 103: execIptablesSilently(target, "-t", table, "-F", *childChain)
ExecFlush ==
    /\ InSafe(2)
    /\ SafeCall("-F", TRUE,
          Invoke(ipt, Topology[entry].target,
                 [f \in Families |-> IptFlush(ipt[f], Topology[entry].children[child])],
                 Ext("-F", Topology[entry].target)))
    /\ SameChild

\* line 104: execIptablesSilently(target, "-t", table, "-X", *childChain)
ExecDeleteChain ==
    /\ InSafe(3)
    /\ SafeCall("-X", TRUE,
          Invoke(ipt, Topology[entry].target,
                 [f \in Families |-> IptDeleteChain(ipt[f], Topology[entry].children[child])],
                 Ext("-X", Topology[entry].target)))
    /\ SameChild

\* Variant of line 105 that issues a failed -N once more before going on.
ExecNewChainRetries ==
    /\ InSafe(4)
    /\ LET r == Invoke(ipt, Topology[entry].target,
                       [f \in Families |-> IptNewChain(ipt[f], Topology[entry].children[child])],
                       Ext("-N", Topology[entry].target))
       IN  /\ SafeCall("-N", FALSE, r)
           /\ IF r.failed # {} /\ last.op # "-N"
              THEN UNCHANGED <<pc, entry, child, step>>
              ELSE SameChild

\* line 105: execIptables(target, "-t", table, "-N", *childChain)
ExecNewChain ==
    /\ InSafe(4)
    /\ SafeCall("-N", FALSE,
          Invoke(ipt, Topology[entry].target,
                 [f \in Families |-> IptNewChain(ipt[f], Topology[entry].children[child])],
                 Ext("-N", Topology[entry].target)))
    /\ SameChild

\* Variant of line 106 that inserts the jump rule at the head of the parent
\* chain ("-I") instead of appending it.
ExecAppendJumpInserts ==
    /\ InSafe(5)
    /\ SafeCall("-A", FALSE,
          Invoke(ipt, Topology[entry].target,
                 [f \in Families |->
                     IF /\ Topology[entry].parent \in ipt[f].exists
                        /\ Topology[entry].children[child] \in ipt[f].exists
                     THEN Result([ipt[f] EXCEPT !.rules[Topology[entry].parent] =
                                     << Topology[entry].children[child] >> \o @], 0)
                     ELSE Result(ipt[f], 1)],
                 Ext("-A", Topology[entry].target)))
    /\ AfterAppend(entry, child)

\* line 106: execIptables(target, "-t", table, "-A", parentChain, "-j", *childChain)
\* and the loop condition of line 107.
ExecAppendJump ==
    /\ InSafe(5)
    /\ SafeCall("-A", FALSE,
          Invoke(ipt, Topology[entry].target,
                 [f \in Families |-> IptAppendJump(ipt[f], Topology[entry].parent,
                                          Topology[entry].children[child])],
                 Ext("-A", Topology[entry].target)))
    /\ AfterAppend(entry, child)

\* Variant of lines 120-123 that walks the child list backwards.
RECURSIVE ChildLinesReversed(_, _, _)
ChildLinesReversed(parentChain, childChains, i) ==
    << [kind |-> "chain", chain |-> childChains[Len(childChains) + 1 - i]],
       [kind |-> "append", chain |-> parentChain,
        jump |-> childChains[Len(childChains) + 1 - i]] >>
    \o (IF i < Len(childChains) THEN ChildLinesReversed(parentChain, childChains, i + 1)
        ELSE << >>)

\* Variant of lines 120-123 without the ":child -" line of line 121.
RECURSIVE ChildLinesNoReset(_, _, _)
ChildLinesNoReset(parentChain, childChains, i) ==
    << [kind |-> "append", chain |-> parentChain, jump |-> childChains[i]] >>
    \o (IF i < Len(childChains) THEN ChildLinesNoReset(parentChain, childChains, i + 1)
        ELSE << >>)

\* Variant of lines 120-123 whose loop stops after the first child.
ChildLinesFirstOnly(parentChain, childChains, i) ==
    << [kind |-> "chain", chain |-> childChains[i]],
       [kind |-> "append", chain |-> parentChain, jump |-> childChains[i]] >>

\* lines 120-123: the do-while over the child list, one ":child -" and one
\* "-A parent -j child" line per child.
RECURSIVE ChildLines(_, _, _)
ChildLines(parentChain, childChains, i) ==
    << [kind |-> "chain", chain |-> childChains[i]],
       [kind |-> "append", chain |-> parentChain, jump |-> childChains[i]] >>
    \o (IF i < Len(childChains) THEN ChildLines(parentChain, childChains, i + 1)
        ELSE << >>)

\* Variant of lines 115-124 without the "-F parentChain" line of line 119.
FastCommandNoFlush(table, parentChain, childChains) ==
    << [kind |-> "table", table |-> table],
       [kind |-> "chain", chain |-> parentChain] >>
    \o ChildLines(parentChain, childChains, 1)
    \o << [kind |-> "commit"] >>

\* lines 115-124: the script createChildChainsFast builds.
FastCommand(table, parentChain, childChains) ==
    << [kind |-> "table", table |-> table],
       [kind |-> "chain", chain |-> parentChain],
       [kind |-> "flush", chain |-> parentChain] >>
    \o ChildLines(parentChain, childChains, 1)
    \o << [kind |-> "commit"] >>

\* Variant of createChildChainsFast that hands every script to the tools of
\* both families, whatever target the caller passed.
CreateChildChainsFastBothFamilies ==
    /\ pc = "topology"
    /\ entry \in Entries
    /\ Topology[entry].fast
    /\ \E command \in {FastCommand(Topology[entry].table, Topology[entry].parent,
                                     Topology[entry].children)} :
          \E r \in {Invoke(ipt, V4V6,
                            [f \in Families |-> IptRestore(ipt[f], command)],
                            Ext("restore", V4V6))} :
              /\ ipt' = r.ipt
              /\ last' = Call("restore", entry, 0, r.failed, FALSE)
              /\ failures' = failures \cup {<<"restore", entry, f>> : f \in r.failed}
    /\ nRestore' = nRestore + 1
    /\ AfterEntry(entry)
    /\ UNCHANGED <<nExec, hookLog, bwCalls, routeCalls, routeRet, errLogged,
                   sigHandler, broken, run, start, runStart>>

\* createChildChainsFast: builds the script and hands it to
\* execIptablesRestore(target, command); the exit status is dropped.
CreateChildChainsFast ==
    /\ pc = "topology"
    /\ entry \in Entries
    /\ Topology[entry].fast
    /\ \E command \in {FastCommand(Topology[entry].table, Topology[entry].parent,
                                     Topology[entry].children)} :
          \E r \in {Invoke(ipt, Topology[entry].target,
                            [f \in Families |-> IptRestore(ipt[f], command)],
                            Ext("restore", Topology[entry].target))} :
              /\ ipt' = r.ipt
              /\ last' = Call("restore", entry, 0, r.failed, FALSE)
              /\ failures' = failures \cup {<<"restore", entry, f>> : f \in r.failed}
    /\ nRestore' = nRestore + 1
    /\ AfterEntry(entry)
    /\ UNCHANGED <<nExec, hookLog, bwCalls, routeCalls, routeRet, errLogged,
                   sigHandler, broken, run, start, runStart>>

(***************************************************************************)
(* The module hooks.  Their rule content is outside Controllers.cpp: a     *)
(* hook is taken to put one rule into every existing chain its module      *)
(* owns, in the families for which initIptablesRules creates that chain.   *)
(***************************************************************************)
OwnedByOem ==
    {"OEM_IPTABLES_FILTER_FORWARD", "OEM_IPTABLES_FILTER_OUTPUT",
     "OEM_IPTABLES_MANGLE_POSTROUTING", "OEM_IPTABLES_NAT_PREROUTING"}

OwnedByFirewall ==
    {"FirewallController::LOCAL_INPUT", "FirewallController::LOCAL_FORWARD",
     "FirewallController::LOCAL_OUTPUT"}

OwnedByNat ==
    {"NatController::LOCAL_FORWARD", "NatController::LOCAL_RAW_PREROUTING",
     "NatController::LOCAL_MANGLE_FORWARD", "NatController::LOCAL_NAT_POSTROUTING"}

OwnedByBandwidth ==
    {"BandwidthController::LOCAL_INPUT", "BandwidthController::LOCAL_FORWARD",
     "BandwidthController::LOCAL_OUTPUT", "BandwidthController::LOCAL_RAW_PREROUTING",
     "BandwidthController::LOCAL_MANGLE_POSTROUTING"}

OwnedByIdletimer ==
    {"IdletimerController::LOCAL_RAW_PREROUTING",
     "IdletimerController::LOCAL_MANGLE_POSTROUTING"}

Populate(state, owned) ==
    [f \in Families |->
        [state[f] EXCEPT !.rules =
            [c \in Chains |-> IF /\ c \in owned
                                 /\ c \in state[f].exists
                                 /\ \E e \in Entries : /\ c \in ChildrenOf(e)
                                                       /\ f \in Topology[e].target
                              THEN Append(state[f].rules[c], "module_rule")
                              ELSE state[f].rules[c]]]]

\* One hook call of initIptablesRules: it runs whatever the topology calls
\* returned, and its own result is dropped.
Hook(at, name, owned, next) ==
    /\ pc = at
    /\ pc' = next
    /\ hookLog' = Append(hookLog, name)
    /\ ipt' = Populate(ipt, owned)
    /\ UNCHANGED <<entry, child, step, last, nExec, nRestore, bwCalls, routeCalls,
                   routeRet, errLogged, sigHandler, failures, broken, run, start, runStart>>

\* line 161
SetupOemIptablesHook ==
    Hook("setupOemIptablesHook", "oem", OwnedByOem, "firewallCtrl")

\* Variant of line 165 that calls bandwidthCtrl.setupIptablesHooks() in the
\* place of firewallCtrl.setupIptablesHooks().
FirewallSetupIptablesHooksSwapped ==
    Hook("firewallCtrl", "bandwidth", OwnedByBandwidth, "natCtrl")

\* line 165
FirewallSetupIptablesHooks ==
    Hook("firewallCtrl", "firewall", OwnedByFirewall, "natCtrl")

\* Variant of line 169 that never calls natCtrl.setupIptablesHooks().
NatSetupIptablesHooksSkipped ==
    /\ pc = "natCtrl"
    /\ pc' = "bandwidthCtrl"
    /\ UNCHANGED <<entry, child, step, ipt, last, nExec, nRestore, hookLog, bwCalls,
                   routeCalls, routeRet, errLogged, sigHandler, failures, broken,
                   run, start, runStart>>

\* line 169
NatSetupIptablesHooks ==
    Hook("natCtrl", "nat", OwnedByNat, "bandwidthCtrl")

\* Variant of line 176 that never calls bandwidthCtrl.setupIptablesHooks().
BandwidthSetupIptablesHooksSkipped ==
    /\ pc = "bandwidthCtrl"
    /\ pc' = "idletimerCtrl"
    /\ UNCHANGED <<entry, child, step, ipt, last, nExec, nRestore, hookLog, bwCalls,
                   routeCalls, routeRet, errLogged, sigHandler, failures, broken,
                   run, start, runStart>>

\* line 176
BandwidthSetupIptablesHooks ==
    Hook("bandwidthCtrl", "bandwidth", OwnedByBandwidth, "idletimerCtrl")

\* Variant in which init goes from the last hook straight to
\* RouteController::Init, without line 191.
IdletimerSetupIptablesHooksNoDefaults ==
    Hook("idletimerCtrl", "idletimer", OwnedByIdletimer, "RouteControllerInit")

\* line 183, after which initIptablesRules returns into init (line 188)
IdletimerSetupIptablesHooks ==
    Hook("idletimerCtrl", "idletimer", OwnedByIdletimer, "enableBandwidthControl")

(***************************************************************************)
(* Controllers::Controllers and Controllers::init.                         *)
(***************************************************************************)
\* Variant of the constructor without the installSignalHandler call of
\* line 132.
ConstructNoHandler ==
    /\ pc = "new"
    /\ pc' = "topology"
    /\ entry' = 1
    /\ child' = IF Topology[1].fast THEN 0 ELSE 1
    /\ step' = IF Topology[1].fast THEN 0 ELSE 1
    /\ UNCHANGED <<ipt, last, nExec, nRestore, hookLog, bwCalls, routeCalls,
                   routeRet, errLogged, sigHandler, failures, broken, run, start,
                   runStart>>

\* lines 130-133, then init() enters initIptablesRules at line 150
Construct ==
    /\ pc = "new"
    /\ sigHandler' = TRUE
    /\ pc' = "topology"
    /\ entry' = 1
    /\ child' = IF Topology[1].fast THEN 0 ELSE 1
    /\ step' = IF Topology[1].fast THEN 0 ELSE 1
    /\ UNCHANGED <<ipt, last, nExec, nRestore, hookLog, bwCalls, routeCalls,
                   routeRet, errLogged, failures, broken, run, start, runStart>>

\* line 191: bandwidthCtrl.enableBandwidthControl(false)
EnableBandwidthControl ==
    /\ pc = "enableBandwidthControl"
    /\ bwCalls' = bwCalls + 1
    /\ pc' = "RouteControllerInit"
    /\ UNCHANGED <<entry, child, step, ipt, last, nExec, nRestore, hookLog,
                   routeCalls, routeRet, errLogged, sigHandler, failures,
                   broken, run, start, runStart>>

\* The statuses RouteController::Init may return: 0 or a negative errno.
RouteStatuses == {0, -1, -22}

\* Variant of lines 194-198 that treats a non-zero status as fatal.
AfterRouteInitFatal(ret) == IF ret = 0 THEN "ready" ELSE "failed"

\* Where init goes after RouteController::Init returned ret: line 197 and
\* the return, whatever ret is.
AfterRouteInit(ret) == "ready"

\* lines 194-197
RouteControllerInit ==
    /\ pc = "RouteControllerInit"
    /\ \E ret \in RouteStatuses :
          /\ routeRet' = ret
          /\ errLogged' = (ret # 0)
          /\ pc' = AfterRouteInit(ret)
    /\ routeCalls' = routeCalls + 1
    /\ UNCHANGED <<entry, child, step, ipt, last, nExec, nRestore, hookLog, bwCalls,
                   sigHandler, failures, broken, run, start, runStart>>

\* The daemon is started again on the rule state the previous run left.
Restart ==
    /\ pc = "ready"
    /\ run < MaxRuns
    /\ run' = run + 1
    /\ pc' = "new"
    /\ entry' = 0
    /\ child' = 0
    /\ step' = 0
    /\ last' = NoCall
    /\ nExec' = 0
    /\ nRestore' = 0
    /\ hookLog' = << >>
    /\ bwCalls' = 0
    /\ routeCalls' = 0
    /\ routeRet' = 0
    /\ errLogged' = FALSE
    /\ sigHandler' = FALSE
    /\ failures' = {}
    /\ runStart' = ipt
    /\ UNCHANGED <<ipt, broken, start>>

(***************************************************************************)
(* Initial rule states.  A template says what the first run finds: the     *)
(* state of the selected child chains, how many jump rules to each the     *)
(* parent already holds, and whether the parent holds vendor rules.        *)
(***************************************************************************)
Templates ==
    {t \in [chain : {"absent", "empty", "leftover"},
            jumps : 0..MaxPreJumps,
            vendor : BOOLEAN,
            sel : {"all", "odd", "even"},
            fams : {V4V6, V4}] :
        /\ t.chain = "absent" => t.jumps = 0 /\ t.sel = "all"
        /\ (t.chain = "absent" /\ ~t.vendor) => t.fams = V4V6}

Selected(t, f, i) ==
    /\ f \in t.fams
    /\ t.chain # "absent"
    /\ \/ t.sel = "all"
       \/ t.sel = "odd" /\ i % 2 = 1
       \/ t.sel = "even" /\ i % 2 = 0

RECURSIVE Copies(_, _)
Copies(x, n) == IF n = 0 THEN << >> ELSE << x >> \o Copies(x, n - 1)

\* The pre-existing jump rules of a parent, last declared child first.
RECURSIVE PreJumps(_, _, _, _)
PreJumps(t, f, e, i) ==
    IF i = 0 THEN << >>
    ELSE (IF Selected(t, f, i) THEN Copies(Topology[e].children[i], t.jumps) ELSE << >>)
         \o (IF t.vendor /\ f \in t.fams /\ i = Len(Topology[e].children)
             THEN << "vendor_b" >> ELSE << >>)
         \o PreJumps(t, f, e, i - 1)

PreParent(t, f, e) ==
    (IF t.vendor /\ f \in t.fams THEN << "vendor_a" >> ELSE << >>)
    \o PreJumps(t, f, e, Len(Topology[e].children))

EntryOf(c) == CHOOSE e \in Entries : Topology[e].parent = c \/ c \in ChildrenOf(e)

IndexOf(c) == CHOOSE i \in 1..Len(Topology[EntryOf(c)].children) :
                  Topology[EntryOf(c)].children[i] = c

PreTable(t, f) ==
    [exists |-> Parents \cup {c \in Children : Selected(t, f, IndexOf(c))},
     rules |-> [c \in Chains |->
                  IF c \in Parents THEN PreParent(t, f, EntryOf(c))
                  ELSE IF Selected(t, f, IndexOf(c)) /\ t.chain = "leftover"
                  THEN << "old_rule" >>
                  ELSE << >>]]

\* The environment: no command fails for an external reason, or one kind
\* of command does, in one family or in both, every time it is issued.
Ops == {"-D", "-F", "-X", "-N", "-A", "restore"}

BrokenChoices ==
    {{}} \cup {{<<op, f>> : f \in F} : op \in Ops, F \in {{"v4"}, {"v6"}, V4V6}}

Init ==
    /\ pc = "new"
    /\ entry = 0
    /\ child = 0
    /\ step = 0
    /\ \E t \in Templates : ipt = [f \in Families |-> PreTable(t, f)]
    /\ start = ipt
    /\ runStart = ipt
    /\ last = NoCall
    /\ nExec = 0
    /\ nRestore = 0
    /\ hookLog = << >>
    /\ bwCalls = 0
    /\ routeCalls = 0
    /\ routeRet = 0
    /\ errLogged = FALSE
    /\ sigHandler = FALSE
    /\ failures = {}
    /\ broken \in BrokenChoices
    /\ run = 1

Next ==
    \/ Construct
    \/ CreateChildChainsFast
    \/ ExecDeleteJump
    \/ ExecFlush
    \/ ExecDeleteChain
    \/ ExecNewChain
    \/ ExecAppendJump
    \/ SetupOemIptablesHook
    \/ FirewallSetupIptablesHooks
    \/ NatSetupIptablesHooks
    \/ BandwidthSetupIptablesHooks
    \/ IdletimerSetupIptablesHooks
    \/ EnableBandwidthControl
    \/ RouteControllerInit
    \/ Restart

Spec == Init /\ [][Next]_vars

\* The steps of the constructor and of init.  Every external invocation is a
\* blocking call that returns, and init is one thread of control, so a
\* step of it that can be taken is taken.
InitStep ==
    \/ Construct
    \/ CreateChildChainsFast
    \/ ExecDeleteJump
    \/ ExecFlush
    \/ ExecDeleteChain
    \/ ExecNewChain
    \/ ExecAppendJump
    \/ SetupOemIptablesHook
    \/ FirewallSetupIptablesHooks
    \/ NatSetupIptablesHooks
    \/ BandwidthSetupIptablesHooks
    \/ IdletimerSetupIptablesHooks
    \/ EnableBandwidthControl
    \/ RouteControllerInit

FairSpec == Spec /\ WF_vars(InitStep)

TypeOK ==
    /\ pc \in {"new", "topology", "setupOemIptablesHook", "firewallCtrl", "natCtrl",
               "bandwidthCtrl", "idletimerCtrl", "enableBandwidthControl",
               "RouteControllerInit", "ready"}
    /\ entry \in 0..Len(Topology)
    /\ step \in 0..5
    /\ broken \in BrokenChoices
    /\ run \in 1..MaxRuns
    /\ \A f \in Families : Parents \subseteq ipt[f].exists

(***************************************************************************)
(* Vocabulary of the properties.                                           *)
(***************************************************************************)
ParentRules(state, f, e) == state[f].rules[Topology[e].parent]

\* The jump rules to the declared children of entry e, in chain order.
Jumps(rules, e) == SelectSeq(rules, LAMBDA r : r \in ChildrenOf(e))

\* The rules of a parent chain that are no jump to a declared child of e.
NotOwned(rules, e) == SelectSeq(rules, LAMBDA r : r \notin ChildrenOf(e))

\* All eight createChildChains* calls of this run have returned.
TopologyDone == pc \notin {"new", "topology"}

\* The createChildChains* call of entry e has returned in this run.
Installed(e) == TopologyDone \/ (pc = "topology" /\ entry > e)

NoChildChains(state) == \A f \in Families : state[f].exists = Parents

AtMostOneJump(state) ==
    \A e \in Entries : \A f \in Families : \A c \in ChildrenOf(e) :
        Count(ParentRules(state, f, e), c) <= 1

\* No command fails for a reason outside the rule state.
ToolReliable == broken = {}

FastEntries == {e \in Entries : Topology[e].fast}

SafeEntries == {e \in Entries : ~Topology[e].fast}

NumSafeCalls ==
    Cardinality({<<e, i, k>> \in SafeEntries \X (1..4) \X (1..5) :
                    i <= Len(Topology[e].children)})

HookOrder == << "oem", "firewall", "nat", "bandwidth", "idletimer" >>

IsPrefix(s, t) == Len(s) <= Len(t) /\ SubSeq(t, 1, Len(s)) = s

\* The parent chain of entry e is as this run found it, or holds a jump rule
\* to every declared child.
PreOrInstalled(f, e) ==
    \/ ParentRules(ipt, f, e) = ParentRules(runStart, f, e)
    \/ \A c \in ChildrenOf(e) : Count(ParentRules(ipt, f, e), c) >= 1

\* No -N, -A or transaction invocation of entry e failed in family f.
CreateAppendSucceeded(e, f) ==
    \A op \in {"-N", "-A", "restore"} : <<op, e, f>> \notin failures

VendorParents == {"filter/OUTPUT", "mangle/POSTROUTING"}

(***************************************************************************)
(* C1 - Idempotence.  Starting from a rule state with no child chains, when *)
(* the eight installations have run twice in succession (the daemon was    *)
(* restarted on the rules its first run left) and no command failed for a  *)
(* reason outside the rule state, every parent chain holds exactly one     *)
(* jump rule to each declared child, in every family the entry targets.    *)
(***************************************************************************)
C1_Idempotence ==
    (run >= 2 /\ TopologyDone /\ NoChildChains(start) /\ ToolReliable) =>
        \A e \in Entries : \A f \in Topology[e].target : \A c \in ChildrenOf(e) :
            Count(ParentRules(ipt, f, e), c) = 1

C1_Witness ==
    /\ run = 2
    /\ pc = "ready"
    /\ NoChildChains(start)
    /\ ToolReliable
    /\ ~NoChildChains(runStart)

(***************************************************************************)
(* C2 - Ordering fidelity.  After the installation of an entry, safe or    *)
(* fast, on a first run or on a re-run (any run that finds at most one     *)
(* jump rule per declared child, with commands failing only for the rule   *)
(* state), the jump rules to the declared children stand in the parent     *)
(* chain in exactly the order of the entry's child list.                   *)
(***************************************************************************)
C2_OrderingFidelity ==
    (AtMostOneJump(runStart) /\ ToolReliable) =>
        \A e \in Entries : \A f \in Topology[e].target :
            Installed(e) => Jumps(ParentRules(ipt, f, e), e) = Topology[e].children

C2_Witness ==
    /\ run = 2
    /\ AtMostOneJump(runStart)
    /\ ToolReliable
    /\ Installed(3)
    /\ Jumps(ParentRules(runStart, "v4", 2), 2) = FILTER_FORWARD
    /\ Jumps(ParentRules(ipt, "v6", 3), 3) = FILTER_OUTPUT

(***************************************************************************)
(* C3 - Fatal topology failure.  Once a chain-creation invocation (-N) has *)
(* failed during topology building, no hook-installation operation is      *)
(* invoked in that run.                                                    *)
(***************************************************************************)
C3_FatalTopologyFailure ==
    (\E e \in Entries : \E f \in Families : <<"-N", e, f>> \in failures)
        => hookLog = << >>

(***************************************************************************)
(* C4 - Installer abort on a fatal step.  When the -N or the -A invocation *)
(* for a child has failed, no further tool invocation is issued for the    *)
(* same entry.                                                             *)
(***************************************************************************)
C4_InstallerAbortsOnFatal ==
    [][(pc = "topology" /\ last.op \in {"-N", "-A"} /\ last.failed # {})
          => ~(pc' = "topology" /\ entry' = last.entry /\ nExec' = nExec + 1)]_vars

(***************************************************************************)
(* C5 - Non-fatal routing failure.  Whatever RouteController::Init         *)
(* returns, the step that calls it takes init to its end; it touches no    *)
(* rule, repeats no earlier call, and a non-zero status shows only in the  *)
(* error log.  At the end every earlier step has run exactly once.         *)
(***************************************************************************)
C5_RouteInitNonFatal ==
    /\ [](pc = "ready" =>
            /\ errLogged = (routeRet # 0)
            /\ routeCalls = 1
            /\ bwCalls = 1
            /\ hookLog = HookOrder
            /\ nRestore = Cardinality(FastEntries)
            /\ nExec = NumSafeCalls)
    /\ [][pc = "RouteControllerInit" =>
            /\ pc' = "ready"
            /\ routeCalls' = routeCalls + 1
            /\ UNCHANGED <<ipt, last, nExec, nRestore, hookLog, bwCalls, failures,
                           sigHandler>>]_vars

C5_Witness == pc = "ready" /\ routeRet # 0 /\ errLogged

(***************************************************************************)
(* C6 - Invariant I1 after initialization.  From any initial rule state,   *)
(* when the eight installations of a run have returned, then for every     *)
(* entry and targeted family in which no create, append or transaction     *)
(* invocation failed, every declared child chain exists, holds no rule,    *)
(* and is the target of exactly one jump rule of its parent chain.         *)
(* (Stated where initIptablesRules reaches its first hook: the hooks then  *)
(* fill the chains.)                                                       *)
(***************************************************************************)
C6_InvariantI1 ==
    pc = "setupOemIptablesHook" =>
        \A e \in Entries : \A f \in Topology[e].target :
            CreateAppendSucceeded(e, f) =>
                \A c \in ChildrenOf(e) :
                    /\ c \in ipt[f].exists
                    /\ ipt[f].rules[c] = << >>
                    /\ Count(ParentRules(ipt, f, e), c) = 1

C6_Witness ==
    /\ pc = "setupOemIptablesHook"
    /\ run = 1
    /\ CreateAppendSucceeded(3, "v4")
    /\ start["v4"].rules["StrictController::LOCAL_OUTPUT"] = << "old_rule" >>
    /\ Count(ParentRules(start, "v4", 3), "StrictController::LOCAL_OUTPUT") = 1
    /\ CreateAppendSucceeded(1, "v6")
    /\ start["v6"].rules["BandwidthController::LOCAL_INPUT"] = << "old_rule" >>
    /\ Count(ParentRules(start, "v6", 1), "BandwidthController::LOCAL_INPUT") >= 1
    /\ ~CreateAppendSucceeded(5, "v6")

(***************************************************************************)
(* C7 - Invariant I3, atomic wiring.  As claimed, for every entry: in      *)
(* every state between two tool invocations the parent chain is as the run *)
(* found it or holds all declared jump rules.                              *)
(***************************************************************************)
C7_AtomicWiringEveryEntry ==
    \A e \in Entries : \A f \in Topology[e].target : PreOrInstalled(f, e)

(***************************************************************************)
(* C7 as amended: the same, for the six entries installed with             *)
(* createChildChainsFast.                                                  *)
(***************************************************************************)
C7_AtomicWiringFastEntries ==
    \A e \in FastEntries : \A f \in Topology[e].target : PreOrInstalled(f, e)

C7_Witness ==
    /\ last.op = "restore"
    /\ last.entry = 2
    /\ last.failed = {"v6"}
    /\ ParentRules(ipt, "v4", 2) # ParentRules(runStart, "v4", 2)
    /\ ParentRules(runStart, "v6", 2) # << >>

(***************************************************************************)
(* C8 - Fast strategy result.  Right after createChildChainsFast has       *)
(* committed in a family, whatever the parent chain and the child chains   *)
(* held before, the parent chain holds exactly the jump rules to the       *)
(* declared children in declared order and nothing else, and every         *)
(* declared child chain exists and is empty; for a V4V6 entry in the IPv4  *)
(* and the IPv6 state alike.                                               *)
(***************************************************************************)
C8_FastResult ==
    (last.op = "restore" /\ hookLog = << >>) =>
        \A f \in Topology[last.entry].target \ last.failed :
            /\ ParentRules(ipt, f, last.entry) = Topology[last.entry].children
            /\ \A c \in ChildrenOf(last.entry) :
                  c \in ipt[f].exists /\ ipt[f].rules[c] = << >>

C8_Witness ==
    /\ last.op = "restore"
    /\ last.entry = 1
    /\ last.failed = {}
    /\ hookLog = << >>
    /\ \A f \in Families :
          /\ Count(ParentRules(runStart, f, 1), "vendor_a") = 1
          /\ Count(ParentRules(runStart, f, 1), "FirewallController::LOCAL_INPUT")
                = MaxPreJumps
          /\ runStart[f].rules["FirewallController::LOCAL_INPUT"] = << "old_rule" >>
          /\ ParentRules(ipt, f, 1) = FILTER_INPUT

(***************************************************************************)
(* C9 - Safe strategy frame.  No rule transaction is ever issued for       *)
(* filter OUTPUT or mangle POSTROUTING, and throughout and after their     *)
(* installation the rules of these parent chains that are no jump to a     *)
(* declared child are the ones the run found, in the same order.           *)
(***************************************************************************)
C9_SafeFrame ==
    /\ last.op = "restore" => Topology[last.entry].parent \notin VendorParents
    /\ \A e \in Entries :
          Topology[e].parent \in VendorParents =>
             \A f \in Families :
                NotOwned(ParentRules(ipt, f, e), e)
                   = NotOwned(ParentRules(runStart, f, e), e)

C9_Witness ==
    /\ Installed(5)
    /\ NotOwned(ParentRules(ipt, "v4", 3), 3) = << "vendor_a", "vendor_b" >>
    /\ ParentRules(ipt, "v4", 3) # ParentRules(runStart, "v4", 3)
    /\ NotOwned(ParentRules(ipt, "v6", 5), 5) = << "vendor_a", "vendor_b" >>
    /\ Jumps(ParentRules(ipt, "v6", 5), 5) = MANGLE_POSTROUTING

(***************************************************************************)
(* C10 - Hook registrar sequence.  In every run the hook-installation      *)
(* operations are invoked in the order OEM, firewall, NAT, bandwidth,      *)
(* idle-timer, each exactly once by the time initIptablesRules returns,    *)
(* and none before the last createChildChains* call (nat POSTROUTING) has  *)
(* returned.                                                               *)
(***************************************************************************)
C10_HookSequence ==
    /\ IsPrefix(hookLog, HookOrder)
    /\ pc \in {"enableBandwidthControl", "RouteControllerInit", "ready"}
          => hookLog = HookOrder
    /\ hookLog # << >> =>
          /\ TopologyDone
          /\ nRestore = Cardinality(FastEntries)
          /\ nExec = NumSafeCalls
          /\ last = Call("restore", Len(Topology), 0, last.failed, FALSE)

C10_Witness == pc = "ready" /\ hookLog = HookOrder /\ failures # {}

\* The places of hook name h in the hook log.
Places(h) == {i \in 1..Len(hookLog) : hookLog[i] = h}

(***************************************************************************)
(* C11 - Accounting before decision modules.  As claimed: whenever the     *)
(* firewall or the NAT hook installation has been invoked, the bandwidth   *)
(* hook installation was invoked before it.                                *)
(***************************************************************************)
C11_AccountingHookFirst ==
    \A d \in {"firewall", "nat"} : \A i \in Places(d) :
        \E j \in Places("bandwidth") : j < i

(***************************************************************************)
(* C11 as amended: the bandwidth hook installation is invoked after the    *)
(* firewall and the NAT hook installations: whenever it has been invoked,  *)
(* both were invoked before it.                                            *)
(***************************************************************************)
C11_AccountingHookAfterDecision ==
    \A j \in Places("bandwidth") : \A d \in {"firewall", "nat"} :
        \E i \in Places(d) : i < j

C11_Witness ==
    /\ pc = "idletimerCtrl"
    /\ Places("bandwidth") = {4}
    /\ Places("firewall") = {2}
    /\ Places("nat") = {3}

\* The lifecycle phase of a program position.
Phase ==
    CASE pc = "new" -> 0
      [] pc = "topology" -> 1
      [] pc \in {"setupOemIptablesHook", "firewallCtrl", "natCtrl", "bandwidthCtrl",
                 "idletimerCtrl"} -> 2
      [] pc = "enableBandwidthControl" -> 3
      [] pc = "RouteControllerInit" -> 4
      [] pc = "ready" -> 5
      [] OTHER -> 6

\* A step that issues one tool invocation.
InvocationStep == nExec' + nRestore' = nExec + nRestore + 1

(***************************************************************************)
(* C12 - Lifecycle order.  Every run goes through TopologyBuilding,        *)
(* HooksRegistering, DefaultsApplying, RoutingInit, Ready in this order,   *)
(* one phase at a time: a step stays in its phase or enters the next one   *)
(* (or restarts the daemon from Ready); no tool invocation is issued once  *)
(* a hook has run, no hook runs once enableBandwidthControl(false) was     *)
(* called, that call is made once, after all five hooks, and               *)
(* RouteController::Init once, after it; no other (failed) position is     *)
(* ever entered.                                                           *)
(***************************************************************************)
C12_LifecycleOrder ==
    /\ [](/\ Phase \in 0..5
          /\ Phase <= 1 => hookLog = << >>
          /\ hookLog # << >> =>
                nRestore = Cardinality(FastEntries) /\ nExec = NumSafeCalls
          /\ Phase <= 3 => bwCalls = 0
          /\ Phase >= 4 => bwCalls = 1
          /\ bwCalls = 1 => hookLog = HookOrder
          /\ Phase <= 4 => routeCalls = 0
          /\ Phase = 5 => routeCalls = 1)
    /\ [][/\ \/ Phase' \in {Phase, Phase + 1}
             \/ Phase = 5 /\ Phase' = 0
          /\ InvocationStep => Phase = 1
          /\ hookLog' # hookLog /\ Phase' # 0 => Phase = 2
          /\ bwCalls' # bwCalls /\ Phase' # 0 => Phase = 3 /\ Phase' = 4
          /\ routeCalls' # routeCalls /\ Phase' # 0 => Phase = 4 /\ Phase' = 5]_vars

C12_Witness ==
    /\ pc = "ready"
    /\ run = MaxRuns
    /\ routeRet # 0
    /\ \E e \in Entries : <<"-A", e, "v4">> \in failures

\* The place of a command in the loop body of createChildChains (0 for the
\* transaction of createChildChainsFast and for no call).
StepOf(op) ==
    CASE op = "-D" -> 1
      [] op = "-F" -> 2
      [] op = "-X" -> 3
      [] op = "-N" -> 4
      [] op = "-A" -> 5
      [] OTHER -> 0

\* Call a comes before call b in the order entry, child, loop-body step.
CallBefore(a, b) ==
    \/ a.entry < b.entry
    \/ a.entry = b.entry /\ a.child < b.child
    \/ a.entry = b.entry /\ a.child = b.child /\ StepOf(a.op) < StepOf(b.op)

(***************************************************************************)
(* C13 - No retries.  Within one run, the (entry, child, step) of every    *)
(* tool invocation is strictly after that of the invocation before it,     *)
(* whatever exit status that one returned; so no single-call invocation    *)
(* and no entry's transaction is issued twice, and none is reissued after  *)
(* it failed.                                                              *)
(***************************************************************************)
C13_NoRetries ==
    [][/\ InvocationStep =>
             /\ last'.op # "none"
             /\ CallBefore(last, last')
       /\ (~InvocationStep /\ run' = run) => last' = last]_vars

C13_Witness ==
    /\ pc = "topology"
    /\ last.op = "-A"
    /\ <<"-N", last.entry, "v4">> \in failures
    /\ <<"-X", last.entry, "v4">> \in failures

(***************************************************************************)
(* C14 - Safe strategy protocol.  In a safe entry the invocations of one   *)
(* child are -D, -F, -X, -N, -A in this order, each issued right after the *)
(* one before it whatever that one returned; -D of child i+1 follows -A of *)
(* child i; an entry is left only after -A of its last child; the three    *)
(* cleanup commands are issued silently and the two others are not.  On a  *)
(* first run that found no child chain, every child of a safe entry whose  *)
(* -N and -A did not fail exists and has exactly one jump rule once the    *)
(* entry is installed, although its cleanup commands failed.               *)
(***************************************************************************)
C14_SafeProtocol ==
    /\ [][InvocationStep =>
            /\ (last'.op \in {"-D", "-F", "-X", "-N", "-A"}) <=> (last'.entry \in SafeEntries)
            /\ last'.entry \in SafeEntries =>
                  /\ last'.silent <=> last'.op \in {"-D", "-F", "-X"}
                  /\ IF last'.op = "-D"
                     THEN \/ last.entry # last'.entry /\ last'.child = 1
                          \/ /\ last.entry = last'.entry
                             /\ last.op = "-A"
                             /\ last'.child = last.child + 1
                     ELSE /\ last.entry = last'.entry
                          /\ last.child = last'.child
                          /\ StepOf(last.op) = StepOf(last'.op) - 1
            /\ (last.entry \in SafeEntries /\ last'.entry # last.entry) =>
                  /\ last.op = "-A"
                  /\ last.child = Len(Topology[last.entry].children)]_vars
    /\ [](\A e \in SafeEntries : \A f \in Topology[e].target :
            (/\ run = 1
             /\ NoChildChains(start)
             /\ Installed(e)
             /\ <<"-N", e, f>> \notin failures
             /\ <<"-A", e, f>> \notin failures) =>
                /\ \A op \in {"-D", "-F", "-X"} : <<op, e, f>> \in failures
                /\ \A c \in ChildrenOf(e) :
                      /\ c \in ipt[f].exists
                      /\ Count(ParentRules(ipt, f, e), c) = 1)

C14_Witness ==
    /\ run = 1
    /\ NoChildChains(start)
    /\ pc = "setupOemIptablesHook"
    /\ broken = {<<"-F", "v4">>, <<"-F", "v6">>}
    /\ \A e \in SafeEntries : \A f \in Families :
          /\ {<<"-D", e, f>>, <<"-F", e, f>>, <<"-X", e, f>>} \subseteq failures
          /\ ParentRules(ipt, f, e) = NotOwned(ParentRules(start, f, e), e)
                                       \o Topology[e].children

\* The module that owns child chain c.
Owner(c) ==
    CASE c \in OwnedByOem -> "oem"
      [] c \in OwnedByFirewall -> "firewall"
      [] c \in OwnedByNat -> "nat"
      [] c \in OwnedByBandwidth -> "bandwidth"
      [] c \in OwnedByIdletimer -> "idletimer"
      [] OTHER -> "strict"

\* initIptablesRules has returned.
HooksDone == pc \in {"enableBandwidthControl", "RouteControllerInit", "ready"}

C16_HandlerBeforeTransactions ==
    /\ []((pc = "topology" \/ nRestore > 0 \/ last.op = "restore") => sigHandler)
    /\ [][nRestore' > nRestore => sigHandler /\ sigHandler']_vars

C16_Witness ==
    /\ run = MaxRuns
    /\ nRestore = 1
    /\ last.op = "restore"
    /\ last.failed # {}
    /\ sigHandler

\* The parent chains in the order of the calls of initIptablesRules.
ParentOrder == [e \in Entries |-> Topology[e].parent]

(***************************************************************************)
(* C17 - Strictly sequential topology building.  The eight entries are     *)
(* filter INPUT, filter FORWARD, filter OUTPUT, raw PREROUTING, mangle     *)
(* POSTROUTING, mangle FORWARD, nat PREROUTING, nat POSTROUTING in this    *)
(* order; every tool invocation belongs to the entry of the invocation     *)
(* before it or to the next entry, never to an earlier or a later one; a   *)
(* transaction always opens the next entry; the position of the installer  *)
(* is the entry of the last invocation or the one after it; and when the   *)
(* topology is done the last invocation was one of the eighth entry.       *)
(***************************************************************************)
C17_SequentialTopology ==
    /\ [](/\ ParentOrder = << "filter/INPUT", "filter/FORWARD", "filter/OUTPUT",
                              "raw/PREROUTING", "mangle/POSTROUTING", "mangle/FORWARD",
                              "nat/PREROUTING", "nat/POSTROUTING" >>
          /\ pc = "topology" =>
                \/ entry = last.entry + 1
                \/ entry = last.entry /\ entry \in SafeEntries /\ step = StepOf(last.op) + 1
                \/ /\ entry = last.entry /\ entry \in SafeEntries
                   /\ step = 1 /\ last.op = "-A" /\ child = last.child + 1
          /\ TopologyDone => last.entry = Len(Topology))
    /\ [][InvocationStep =>
            /\ last'.entry = entry
            /\ last'.entry \in {last.entry, last.entry + 1}
            /\ last'.op = "restore" => last'.entry = last.entry + 1
            /\ last'.entry = last.entry => last.entry \in SafeEntries]_vars

C17_Witness ==
    /\ pc = "topology"
    /\ entry = 4
    /\ last.entry = 3
    /\ last.op = "-A"
    /\ last.child = Len(FILTER_OUTPUT)
    /\ nRestore = 2
    /\ nExec = 5 * Len(FILTER_OUTPUT)

\* The chains of the nat table.
NatChains ==
    UNION {{Topology[e].parent} \cup ChildrenOf(e) : e \in {x \in Entries : Topology[x].table = "nat"}}

\* Chain c is the same in the two families of a rule state.
SameInBoth(state, c) ==
    /\ c \in state["v4"].exists <=> c \in state["v6"].exists
    /\ state["v4"].rules[c] = state["v6"].rules[c]

\* A command that fails for an external reason fails so in both families.
FaultsInBoth == \A op \in Ops : <<op, "v4">> \in broken <=> <<op, "v6">> \in broken

\* The nat entries target IPv4 only, the six others both families, and the
\* IPv6 state of the nat chains is what the first run found.
FanOut ==
    /\ \A e \in Entries :
          Topology[e].target = IF Topology[e].table = "nat" THEN V4 ELSE V4V6
    /\ Cardinality({e \in Entries : Topology[e].table = "nat"}) = 2
    /\ \A c \in NatChains :
          /\ c \in ipt["v6"].exists <=> c \in start["v6"].exists
          /\ ipt["v6"].rules[c] = start["v6"].rules[c]

C19_BoundedTermination ==
    /\ [](/\ nRestore <= 6 /\ nExec <= 35 /\ Len(hookLog) <= 5
          /\ bwCalls <= 1 /\ routeCalls <= 1
          /\ pc = "ready" =>
                /\ nRestore = 6 /\ nExec = 35 /\ Len(hookLog) = 5
                /\ bwCalls = 1 /\ routeCalls = 1
          /\ Cardinality(FastEntries) = 6
          /\ {Len(Topology[e].children) : e \in SafeEntries} = {4, 3}
          /\ \A e \in Entries : Len(Topology[e].children) >= 1)
    /\ []<>(pc = "ready")

C19_Witness ==
    /\ pc = "ready"
    /\ run = MaxRuns
    /\ nRestore = 6
    /\ nExec = 35
    /\ routeRet # 0
    /\ \A f \in Families : <<"-N", 3, f>> \in failures /\ <<"-A", 5, f>> \in failures

(***************************************************************************)
(* C20 - Jump rules form the tail of a safe-strategy parent.  For a safe   *)
(* entry and a family it targets: when the run found at most one jump rule *)
(* per declared child in the parent, -D does not fail for an external      *)
(* reason and no -N or -A of the entry failed, then once the entry is      *)
(* installed the parent chain is the rules this run found that are no jump *)
(* to a declared child, in their order, followed by one jump rule per      *)
(* declared child in declared order; this holds in every run.              *)
(***************************************************************************)
C20_JumpsFormTail ==
    \A e \in SafeEntries : \A f \in Topology[e].target :
        (/\ Installed(e)
         /\ \A c \in ChildrenOf(e) : Count(ParentRules(runStart, f, e), c) <= 1
         /\ <<"-D", f>> \notin broken
         /\ CreateAppendSucceeded(e, f)) =>
            ParentRules(ipt, f, e) =
                NotOwned(ParentRules(runStart, f, e), e) \o Topology[e].children

C20_Witness ==
    /\ pc = "setupOemIptablesHook"
    /\ run = 1
    /\ broken = {}
    /\ Len(ParentRules(start, "v4", 5)) = 2 + Len(MANGLE_POSTROUTING)
    /\ ParentRules(start, "v4", 5)[2] \in ChildrenOf(5)
    /\ ParentRules(start, "v4", 5)[3] = "vendor_b"
    /\ ParentRules(ipt, "v4", 5) = << "vendor_a", "vendor_b" >> \o MANGLE_POSTROUTING
    /\ Topology[5].parent \in VendorParents

====
